---- MODULE Spec2Model ----
(***************************************************************************)
(* A model of src/main.py (School LawBot API): the citation helpers, the   *)
(* text decomposer split_article_text_to_structure and the /law handler    *)
(* get_law_clause with its registry and HTML retrieval tiers.              *)
(*                                                                         *)
(* Strings are sequences of one-character tokens.  The Korean characters   *)
(* the code's regular expressions name are written in ASCII:               *)
(*   "je" = U+C81C, "jo" = U+C870, "ui" = U+C758, "hang" = U+D56D,         *)
(*   "ho" = U+D638.  Digits are "0".."9", " " is the space, "nl" a line    *)
(* break, ":" stands for the punctuation [:.)] a heading delimiter eats,   *)
(* and "a", "b" are any other characters.  A string literal of the code    *)
(* that no expression looks into is one token named after it.              *)
(***************************************************************************)
EXTENDS Integers, Sequences, FiniteSets, TLC

\* ---------------------------------------------------------------- bounds
\* The largest article number of the citations that are formatted and parsed.
MaxNo == 11
\* The largest branch, clause and subclause number of those citations.
MaxSub == 2
\* The number of segments a decomposed text is built from.
MaxSegs == 4
\* The number of /law requests a behaviour handles.
MaxRequests == 2
\* The handler threads of the server's pool.
Workers == 2
\* The requests the threads take between them.
MaxLogRequests == 2

\* ------------------------------------------------------------ characters
Digits == {"0", "1", "2", "3", "4", "5", "6", "7", "8", "9"}
DigitStr == <<"0", "1", "2", "3", "4", "5", "6", "7", "8", "9">>
\* \s of the re module, as far as the texts here go.
Whitespace == {" ", "nl"}
\* The class [\s:.\)] that follows a heading in the three split patterns.
DelimTail == Whitespace \cup {":"}
\* Python's None, for the integer fields of a parsed citation.
None == -1

DigitVal(c) == CHOOSE d \in 0..9 : DigitStr[d + 1] = c

\* int(s) for a string of digits: leading zeros do not count.
RECURSIVE DigitsToInt(_)
DigitsToInt(d) ==
  IF d = <<>> THEN 0
  ELSE 10 * DigitsToInt(SubSeq(d, 1, Len(d) - 1)) + DigitVal(d[Len(d)])

\* str(n) for n >= 0.
RECURSIVE IntToDigits(_)
IntToDigits(n) ==
  IF n < 10 THEN <<DigitStr[n + 1]>>
  ELSE IntToDigits(n \div 10) \o <<DigitStr[(n % 10) + 1]>>

\* s.replace(" ", ""): only the space goes, not every whitespace.
RemoveSpaces(s) == SelectSeq(s, LAMBDA c : c # " ")

\* The number of characters of s from position i on that lie in S: what a
\* greedy S+ or S* consumes there.
RECURSIVE RunLen(_, _, _)
RunLen(s, i, S) ==
  IF i <= Len(s) /\ s[i] \in S THEN 1 + RunLen(s, i + 1, S) ELSE 0

At(s, i, c) == i >= 1 /\ i <= Len(s) /\ s[i] = c

Tail_from(s, i) == SubSeq(s, i, Len(s))

\* s.strip() without the trailing part: the mutant of Strip.
StripLeadingOnly(s) ==
  Tail_from(s, 1 + RunLen(s, 1, Whitespace))

\* s.strip(): leading and trailing whitespace removed.
Strip(s) ==
  LET lead == RunLen(s, 1, Whitespace)
      rest == Tail_from(s, 1 + lead)
      last == IF \E k \in 1..Len(rest) : rest[k] \notin Whitespace
              THEN CHOOSE k \in 1..Len(rest) :
                     /\ rest[k] \notin Whitespace
                     /\ \A j \in (k + 1)..Len(rest) : rest[j] \in Whitespace
              ELSE 0
  IN SubSeq(rest, 1, last)

\* Whether needle occurs in hay as a contiguous substring ("in" on strings).
Contains(hay, needle) ==
  \E i \in 1..(Len(hay) - Len(needle) + 1) :
    SubSeq(hay, i, i + Len(needle) - 1) = needle

\* --------------------------------------------------- citation functions
\* "je" digits+ tail at position i: the pieces "je N jo", "je N hang" and
\* "je N ho" of the citation patterns.  next is the position after the match.
JeNum(s, i, tail) ==
  LET n == RunLen(s, i + 1, Digits)
  IN IF At(s, i, "je") /\ n >= 1 /\ At(s, i + 1 + n, tail)
     THEN [ok |-> TRUE, num |-> DigitsToInt(SubSeq(s, i + 1, i + n)), next |-> i + n + 2]
     ELSE [ok |-> FALSE, num |-> None, next |-> i]

\* normalize_article_no: spaces removed, then "je N jo jo" -> "je N jo" and
\* "N jo jo" -> "N jo" (re.sub, leftmost non-overlapping matches).
RECURSIVE SubJoJo(_, _, _)
SubJoJo(s, i, withJe) ==
  IF i > Len(s) THEN <<>>
  ELSE LET d == IF withJe THEN i + 1 ELSE i
           n == RunLen(s, d, Digits)
           hit == /\ (withJe => s[i] = "je")
                  /\ n >= 1
                  /\ At(s, d + n, "jo")
                  /\ At(s, d + n + 1, "jo")
       IN IF hit
          THEN SubSeq(s, i, d + n) \o SubJoJo(s, d + n + 2, withJe)
          ELSE <<s[i]>> \o SubJoJo(s, i + 1, withJe)

normalize_article_no(article_no_raw) ==
  IF article_no_raw = <<>> THEN article_no_raw
  ELSE SubJoJo(SubJoJo(RemoveSpaces(article_no_raw), 1, TRUE), 1, FALSE)

\* ^ je \d+ jo (ui \d+)? $
IsFullArticle(s) ==
  LET n == RunLen(s, 2, Digits)
      m == RunLen(s, 4 + n, Digits)
  IN /\ At(s, 1, "je")
     /\ n >= 1
     /\ At(s, 2 + n, "jo")
     /\ \/ Len(s) = 2 + n
        \/ /\ At(s, 3 + n, "ui")
           /\ m >= 1
           /\ Len(s) = 3 + n + m

\* ^ (\d+) ui (\d+) $
IsPlainBranch(s) ==
  LET n == RunLen(s, 1, Digits)
      m == RunLen(s, 2 + n, Digits)
  IN n >= 1 /\ At(s, 1 + n, "ui") /\ m >= 1 /\ Len(s) = 1 + n + m

IsDigitString(s) == s # <<>> /\ \A k \in 1..Len(s) : s[k] \in Digits

fix_article_no(article_no) ==
  LET s == RemoveSpaces(article_no)
      n == RunLen(s, 1, Digits)
      s1 == IF At(s, 1, "je") THEN s ELSE <<"je">> \o s
      s2 == IF \E k \in 1..Len(s1) : s1[k] = "jo" THEN s1 ELSE s1 \o <<"jo">>
  IN IF IsFullArticle(s) THEN s
     ELSE IF IsDigitString(s) THEN <<"je">> \o s \o <<"jo">>
     ELSE IF IsPlainBranch(s)
          THEN <<"je">> \o SubSeq(s, 1, n) \o <<"jo", "ui">> \o Tail_from(s, n + 2)
     ELSE s2

NoCitation == [no |-> None, gaji |-> None, hang |-> None, ho |-> None, is_branch |-> FALSE]

\* parse_article_input without its first pattern: the mutant.
parse_article_input_plain_only(article_no_raw) ==
  LET s == RemoveSpaces(article_no_raw)
      a == JeNum(s, 1, "jo")
      h == JeNum(s, a.next, "hang")
      o == JeNum(s, h.next, "ho")
  IN IF article_no_raw = <<>> \/ ~a.ok THEN NoCitation
     ELSE [no |-> a.num, gaji |-> None, hang |-> h.num, ho |-> o.num, is_branch |-> FALSE]

\* parse_article_input: re.match (anchored at the start only) of
\*   je(\d+)jo ui(\d+) (?:je(\d+)hang)? (?:je(\d+)ho)?     and then of
\*   je(\d+)jo (?:je(\d+)hang)? (?:je(\d+)ho)?
parse_article_input(article_no_raw) ==
  LET s == RemoveSpaces(article_no_raw)
      a == JeNum(s, 1, "jo")
      bn == RunLen(s, a.next + 1, Digits)
      branch == a.ok /\ At(s, a.next, "ui") /\ bn >= 1
      bnext == a.next + 1 + bn
      h1 == JeNum(s, bnext, "hang")
      o1 == JeNum(s, h1.next, "ho")
      h2 == JeNum(s, a.next, "hang")
      o2 == JeNum(s, h2.next, "ho")
  IN IF article_no_raw = <<>> THEN NoCitation
     ELSE IF branch
          THEN [no |-> a.num,
                gaji |-> DigitsToInt(SubSeq(s, a.next + 1, a.next + bn)),
                hang |-> h1.num, ho |-> o1.num, is_branch |-> TRUE]
     ELSE IF a.ok
          THEN [no |-> a.num, gaji |-> None, hang |-> h2.num, ho |-> o2.num,
                is_branch |-> FALSE]
     ELSE NoCitation

\* The canonical string of a citation: fix_article_no of the plain form
\* ("14", "17 ui 3": its docstring), then "je P hang" and "je Q ho" for the
\* clause and the subclause, the forms parse_article_input reads.
format_citation(c) ==
  LET plain == IF c.gaji = None THEN IntToDigits(c.no)
               ELSE IntToDigits(c.no) \o <<"ui">> \o IntToDigits(c.gaji)
      clause == IF c.hang = None THEN <<>>
                ELSE <<"je">> \o IntToDigits(c.hang) \o <<"hang">>
      sub == IF c.ho = None THEN <<>>
             ELSE <<"je">> \o IntToDigits(c.ho) \o <<"ho">>
  IN fix_article_no(plain) \o clause \o sub

\* ------------------------------------------------------ text decomposer
\* The length of the heading of the given level that starts at position i
\* of s, 0 when none does: the captured groups of
\*   gaji_pattern (je\d+jo ui\d+), hang_pattern (je\d+hang), ho_pattern (je\d+ho).
HeadLen(s, i, level) ==
  LET n == RunLen(s, i + 1, Digits)
      m == RunLen(s, i + n + 3, Digits)
  IN IF ~(At(s, i, "je") /\ n >= 1) THEN 0
     ELSE IF level = "gaji"
          THEN IF At(s, i + n + 1, "jo") /\ At(s, i + n + 2, "ui") /\ m >= 1
               THEN n + m + 3 ELSE 0
     ELSE IF At(s, i + n + 1, level) THEN n + 2 ELSE 0

\* The position of the first heading of the level at or after i, 0 when none.
FindHead(s, i, level) ==
  IF \E j \in i..Len(s) : HeadLen(s, j, level) > 0
  THEN CHOOSE j \in i..Len(s) :
         /\ HeadLen(s, j, level) > 0
         /\ \A k \in i..(j - 1) : HeadLen(s, k, level) = 0
  ELSE 0

\* d[title] = value on a dict kept as a sequence of entries in insertion
\* order: a title already there keeps its place and takes the new value.
DictPut(d, title, value) ==
  IF \E k \in 1..Len(d) : d[k].title = title
  THEN [k \in 1..Len(d) |->
          IF d[k].title = title THEN [title |-> title, value |-> value] ELSE d[k]]
  ELSE Append(d, [title |-> title, value |-> value])

\* pattern.split(s) from the heading at position j on: the (heading, following
\* text) pairs, the delimiter's [\s:.\)]* tail consumed.
RECURSIVE SplitPairs(_, _, _)
SplitPairs(s, j, level) ==
  LET c == j + HeadLen(s, j, level)
      from == c + RunLen(s, c, DelimTail)
      k == FindHead(s, from, level)
      upto == IF k = 0 THEN Len(s) ELSE k - 1
  IN <<[title |-> SubSeq(s, j, c - 1), content |-> SubSeq(s, from, upto)]>>
     \o (IF k = 0 THEN <<>> ELSE SplitPairs(s, k, level))

\* pattern.split(s): splits[0] and the pairs; found is len(splits) > 1.
SplitOn(s, level) ==
  LET j == FindHead(s, 1, level)
  IN IF j = 0 THEN [found |-> FALSE, first |-> s, pairs |-> <<>>]
     ELSE [found |-> TRUE, first |-> SubSeq(s, 1, j - 1), pairs |-> SplitPairs(s, j, level)]

Leaf(s) == [kind |-> "str", text |-> s]

\* The ho_dict of one clause's content.
RECURSIVE HoDict(_, _)
HoDict(pairs, d) ==
  IF pairs = <<>> THEN d
  ELSE HoDict(Tail(pairs), DictPut(d, pairs[1].title, Leaf(Strip(pairs[1].content))))

\* The value stored under one clause title (lines 136-146).
HangValue(hang_content) ==
  LET ho_splits == SplitOn(hang_content, "ho")
  IN IF ho_splits.found
     THEN [kind |-> "ho", body |-> Strip(ho_splits.first),
           ho |-> HoDict(ho_splits.pairs, <<>>)]
     ELSE Leaf(Strip(hang_content))

RECURSIVE HangDict(_, _)
HangDict(pairs, d) ==
  IF pairs = <<>> THEN d
  ELSE HangDict(Tail(pairs), DictPut(d, pairs[1].title, HangValue(pairs[1].content)))

\* split_article_text_to_structure.  The result is a record by kind:
\*   "gaji": the dict of branch articles (title -> structure);
\*   "hang": {preface ("meorinmal"), hang: title -> text or "ho" value};
\*   "str" : the stripped text.
RECURSIVE split_article_text_to_structure(_)
RECURSIVE GajiDict(_, _)
GajiDict(pairs, d) ==
  IF pairs = <<>> THEN d
  ELSE GajiDict(Tail(pairs),
                DictPut(d, pairs[1].title,
                        split_article_text_to_structure(pairs[1].content)))

split_article_text_to_structure(t) ==
  LET gaji_splits == SplitOn(t, "gaji")
      hang_splits == SplitOn(t, "hang")
  IN IF gaji_splits.found
     THEN [kind |-> "gaji", gaji |-> GajiDict(gaji_splits.pairs, <<>>)]
     ELSE IF hang_splits.found
          THEN [kind |-> "hang", preface |-> Strip(hang_splits.first),
                hang |-> HangDict(hang_splits.pairs, <<>>)]
     ELSE Leaf(Strip(t))

NoStructure == [kind |-> "None"]

\* ------------------------------------------------- links and messages
\* KNOWN_LAWS: abbreviation -> full name.
KNOWN_LAWS ==
  << [k |-> <<"hakpok">>, v |-> <<"hakpok", " ", "law">>],
     [k |-> <<"hakpok", " ", "rule">>, v |-> <<"hakpok", " ", "law", " ", "rule">>],
     [k |-> <<"privacy">>, v |-> <<"privacy", " ", "law">>] >>

normalize_law_name(name) == Strip(RemoveSpaces(name))

resolve_full_law_name(law_name) ==
  LET name == Strip(RemoveSpaces(law_name))
      hits == {i \in 1..Len(KNOWN_LAWS) : name = RemoveSpaces(KNOWN_LAWS[i].k)}
  IN IF hits = {} THEN law_name
     ELSE KNOWN_LAWS[CHOOSE i \in hits : \A j \in hits : i <= j].v

\* make_article_link: the site, the law name without spaces and, when an
\* article is given, "/" and fix_article_no of it.  quote() is one-to-one
\* and is left out.
make_article_link(law_name, article_no) ==
  IF article_no # <<>>
  THEN <<"URL">> \o RemoveSpaces(law_name) \o <<"/">> \o fix_article_no(article_no)
  ELSE <<"URL">> \o RemoveSpaces(law_name)

\* ", ".join(names)
RECURSIVE JoinComma(_)
JoinComma(names) ==
  IF names = <<>> THEN <<>>
  ELSE IF Len(names) = 1 THEN names[1]
  ELSE names[1] \o <<",">> \o JoinComma(Tail(names))

\* "\n".join(blocks)
RECURSIVE JoinLines(_)
JoinLines(blocks) ==
  IF blocks = <<>> THEN <<>>
  ELSE IF Len(blocks) = 1 THEN blocks[1]
  ELSE blocks[1] \o <<"nl">> \o JoinLines(Tail(blocks))

\* len(s): the token "x21" stands for 21 ordinary characters.
CharLen(s) == Len(s) + 20 * Len(SelectSeq(s, LAMBDA c : c = "x21"))

\* The length a scraped text must exceed (len(...) > 20).
MinHtmlLen == 20
\* The size recent_logs is cut back to.
LogLimit == 50

\* ------------------------------------------------------ registry search
NoId == "None"

\* get_law_id on the search response sr: the id of the first law one of
\* whose three names equals the query without spaces, else of the first
\* law in force, else None; None too when the call or the parse raises.
get_law_id(law_name, sr) ==
  LET normalized == normalize_law_name(law_name)
      laws == sr.laws
      exact == {i \in 1..Len(laws) :
                  \E n \in laws[i].names : normalize_law_name(n) = normalized}
      current == {i \in 1..Len(laws) : laws[i].current}
      First(S) == CHOOSE i \in S : \A j \in S : i <= j
  IN IF sr.error \/ laws = <<>> THEN NoId
     ELSE IF exact # {} THEN laws[First(exact)].id
     ELSE IF current # {} THEN laws[First(current)].id
     ELSE NoId

\* ---------------------------------------------------------- HTML scrape
\* re.search(r"(je\s*\d+jo|hang|ho|...)", t): "kw" is any of the other words.
HasKeyword(t) ==
  \E i \in 1..Len(t) :
    \/ t[i] \in {"hang", "ho", "kw"}
    \/ /\ t[i] = "je"
       /\ LET w == RunLen(t, i + 1, Whitespace)
              n == RunLen(t, i + 1 + w, Digits)
          IN n >= 1 /\ At(t, i + 1 + w + n, "jo")

\* fetch_article_html_fallback on the fetched page: the text of the first
\* selector that matches, else the joined text blocks, else the message;
\* an exception gives the error message.  (text, structure) as a record.
fetch_article_html_fallback(law_name_full, article_no, page) ==
  LET main == Strip(page.main)
      blocks == SelectSeq(page.blocks,
                          LAMBDA t : CharLen(t) > MinHtmlLen /\ HasKeyword(t))
      all_text == JoinLines(blocks)
  IN IF page.error
     THEN [text |-> <<"MSG_HTML_ERROR">>, structure |-> NoStructure]
     ELSE IF /\ page.has_main
             /\ ~Contains(main, <<"MSG_NO_BODY">>)
             /\ CharLen(main) > MinHtmlLen
          THEN [text |-> main, structure |-> split_article_text_to_structure(main)]
     ELSE IF all_text # <<>> /\ CharLen(all_text) > MinHtmlLen
          THEN [text |-> all_text, structure |-> split_article_text_to_structure(all_text)]
     ELSE [text |-> <<"MSG_HTML_NOT_FOUND">>, structure |-> NoStructure]

\* ------------------------------------------------ the registry document
\* circled_nums.get(cnum, cnum)
circled_nums(cnum) ==
  IF cnum = <<"c1">> THEN <<"1">>
  ELSE IF cnum = <<"c2">> THEN <<"2">>
  ELSE IF cnum = <<"c9">> THEN <<"9">>
  ELSE IF cnum = <<"c10">> THEN <<"1", "0">>
  ELSE cnum

FirstOf(S) == CHOOSE i \in S : \A j \in S : i <= j

\* Lines 273-291: the clause and subclause of the matched article.
SelectClause(article, hang, ho) ==
  LET clauses == article.hang
      hits == {i \in 1..Len(clauses) :
                 LET cnum == Strip(clauses[i].no)
                 IN circled_nums(cnum) = IntToDigits(hang) \/ cnum = IntToDigits(hang)}
      clause == clauses[FirstOf(hits)]
      subs == {j \in 1..Len(clause.ho) : Strip(clause.ho[j].no) = IntToDigits(ho)}
  IN IF hits = {} THEN <<"MSG_HANG_NOT_FOUND">>
     ELSE IF ho # None /\ ho # 0
          THEN IF subs = {} THEN <<"MSG_HO_NOT_FOUND">>
               ELSE clause.ho[FirstOf(subs)].content
     ELSE clause.content

\* The five values extract_article_with_full returns, and whether the HTML
\* fetch was made.
Extracted(content, full, avail, canonical, struct, scraped) ==
  [content |-> content, full |-> full, available |-> avail,
   canonical |-> canonical, structure |-> struct, scraped |-> scraped]

\* The index of the first article whose number equals the requested one
\* after normalize_article_no (line 257), 0 when there is none.
MatchIndex(all_articles, article_no_raw) ==
  LET hits == {i \in 1..Len(all_articles) :
                 normalize_article_no(all_articles[i].no) = normalize_article_no(article_no_raw)}
  IN IF hits = {} THEN 0 ELSE FirstOf(hits)

\* Lines 258-291: the returns for the matched article.  available holds the
\* numbers seen up to it.
ExtractMatched(article, available, c, law_name_full, article_no_raw) ==
  IF \E k \in 1..Len(article.no) : article.no[k] = "ui"
  THEN IF article.content # <<>> /\ article.content # <<"MSG_NO_CONTENT">>
       THEN Extracted(article.content, article.content, available, article.no,
                      split_article_text_to_structure(article.content), FALSE)
       ELSE Extracted(<<"MSG_GAJI_UNAVAILABLE">> \o article.no \o <<"LINK">>
                        \o make_article_link(law_name_full, article_no_raw),
                      <<>>, available, article.no, NoStructure, FALSE)
  ELSE IF c.hang = None
       THEN Extracted(article.content, article.content, available, article.no,
                      split_article_text_to_structure(article.content), FALSE)
  ELSE Extracted(SelectClause(article, c.hang, c.ho), article.content, available,
                 article.no, NoStructure, FALSE)

\* Lines 292-314: no article matched.  html is what
\* fetch_article_html_fallback returns when it is called.
ExtractUnmatched(available, law_name_full, article_no_raw, html) ==
  IF law_name_full # <<>> /\ article_no_raw # <<>>
  THEN Extracted(<<"MSG_FROM_WEB", "LINK">>
                   \o make_article_link(law_name_full, article_no_raw)
                   \o <<"MSG_BODY">> \o html.text,
                 html.text, available, <<>>, html.structure, TRUE)
  ELSE Extracted(<<"MSG_ARTICLE_NOT_FOUND">> \o article_no_raw \o <<"MSG_AVAILABLE">>
                   \o (IF available # <<>> THEN JoinComma(available) ELSE <<"MSG_NONE">>)
                   \o <<"LINK">> \o make_article_link(law_name_full, <<>>),
                 <<>>, available, <<>>, NoStructure, FALSE)

\* extract_article_with_full.  page is what the HTML fetch would return; it
\* is read only when the scrape tier is invoked.  clause_no and subclause_no
\* are parameters the function never reads.
extract_article_with_full(xml_text, article_no_raw, clause_no, subclause_no, law_name_full, page) ==
  LET idx == MatchIndex(xml_text.articles, article_no_raw)
  IN IF ~xml_text.ok
     THEN Extracted(<<"MSG_PARSE_ERROR">>, <<>>, <<>>, <<>>, NoStructure, FALSE)
     ELSE IF idx > 0
          THEN ExtractMatched(xml_text.articles[idx],
                              [i \in 1..idx |-> xml_text.articles[i].no],
                              parse_article_input(article_no_raw),
                              law_name_full, article_no_raw)
     ELSE ExtractUnmatched([i \in 1..Len(xml_text.articles) |-> xml_text.articles[i].no],
                           law_name_full, article_no_raw,
                           fetch_article_html_fallback(law_name_full, article_no_raw, page))

\* s.replace("\n", "<br>")
Br(s) == [i \in 1..Len(s) |-> IF s[i] = "nl" THEN "br" ELSE s[i]]

make_markdown_table(law_name, article_no, clause_no, subclause_no, content, link, full, available) ==
  <<"TBL">> \o law_name
  \o <<"|">> \o article_no
  \o <<"|">> \o (IF clause_no # <<>> THEN clause_no \o <<"hang">> ELSE <<>>)
  \o <<"|">> \o (IF subclause_no # <<>> THEN subclause_no \o <<"ho">> ELSE <<>>)
  \o <<"|">> \o Br(content)
  \o <<"|">> \o Br(full)
  \o <<"|">> \o link
  \o (IF available # <<>> THEN <<"|">> \o JoinComma(available) ELSE <<>>)

\* ------------------------------------------------------------- the state
VARIABLES
  phase,        \* the step the pure-function specifications are at
  citation,     \* the citation to format and parse
  canonical,    \* format_citation(citation)
  parsed,       \* parse_article_input(canonical)
  text,         \* the text to decompose
  structure,    \* split_article_text_to_structure(text)
  pc,           \* where get_law_clause is: idle, search, fetch or extract
  req,          \* the query parameters of the request being handled
  law,          \* law_name_full and law_id of the request
  xml,          \* the registry document lawService.do returned
  resp,         \* the response returned to the request
  events,       \* the network calls made for the request, in order
  recent_logs,  \* the global recent_logs list
  nreq,         \* the number of requests received so far
  resolved,     \* the request keys answered from a registry match so far
  hit,          \* whether the request's key was in resolved when it arrived
  threads       \* where each pool thread is in get_law_clause

pure_vars == <<phase, citation, canonical, parsed, text, structure>>
handler_vars == <<pc, req, law, xml, resp, events, recent_logs, nreq, resolved, hit, threads>>
vars == <<pure_vars, handler_vars>>

NoRequest == [law_name |-> <<>>, article_no |-> <<>>, clause_no |-> <<>>, subclause_no |-> <<>>]
NoLaw == [full |-> <<>>, id |-> NoId]
NoDoc == [ok |-> FALSE, articles |-> <<>>]
\* A pool thread that has not taken a request.
\* seen is the length the thread read at its test, 0 before the test.
NoThread ==
  [at |-> "idle", id |-> 0, path |-> "none", appends |-> 0, seen |-> 0, popped |-> FALSE]
NoThreads == [t \in 1..Workers |-> NoThread]
NoResponse ==
  [kind |-> "none", status |-> 0, source |-> "", law_name |-> <<>>, article |-> <<>>,
   hang |-> <<>>, ho |-> <<>>, content |-> <<>>, full |-> <<>>,
   structure |-> NoStructure, link |-> <<>>, markdown |-> <<>>, available |-> <<>>]

PureOff ==
  /\ phase = "off"
  /\ citation = NoCitation
  /\ canonical = <<>>
  /\ parsed = NoCitation
  /\ text = <<>>
  /\ structure = NoStructure

HandlerOff ==
  /\ pc = "off"
  /\ req = NoRequest
  /\ law = NoLaw
  /\ xml = NoDoc
  /\ resp = NoResponse
  /\ events = <<>>
  /\ recent_logs = <<>>
  /\ nreq = 0
  /\ resolved = {}
  /\ hit = FALSE
  /\ threads = NoThreads

\* ------------------------------------- format and parse of a citation
OptNo == {None} \cup (1..MaxSub)

\* Citations with subclauseNo set only if clauseNo is set.
Citations ==
  {[no |-> n, gaji |-> g, hang |-> h, ho |-> o, is_branch |-> (g # None)] :
     n \in 0..MaxNo, g \in OptNo, h \in OptNo, o \in OptNo} \ 
  {c \in [no : 0..MaxNo, gaji : OptNo, hang : OptNo, ho : OptNo, is_branch : BOOLEAN] :
     c.hang = None /\ c.ho # None}

InitCite ==
  /\ phase = "citation"
  /\ citation \in Citations
  /\ canonical = <<>>
  /\ parsed = NoCitation
  /\ text = <<>>
  /\ structure = NoStructure
  /\ HandlerOff

Format ==
  /\ phase = "citation"
  /\ canonical' = format_citation(citation)
  /\ phase' = "formatted"
  /\ UNCHANGED <<citation, parsed, text, structure, handler_vars>>

Parse ==
  /\ phase = "formatted"
  /\ parsed' = parse_article_input(canonical)
  /\ phase' = "parsed"
  /\ UNCHANGED <<citation, canonical, text, structure, handler_vars>>

NextCite == Format \/ Parse

SpecCite == InitCite /\ [][NextCite]_vars

\* ------------------------------------------------ decomposing a text
Segments ==
  { <<"je", "1", "jo", "ui", "2">>, <<"je", "1", "hang">>, <<"je", "2", "ho">>,
    <<"a">>, <<" ">>, <<":">>, <<"je">>, <<"1">> }

RECURSIVE TextsOf(_)
TextsOf(n) ==
  IF n = 0 THEN {<<>>}
  ELSE LET shorter == TextsOf(n - 1)
       IN shorter \cup {t \o g : t \in shorter, g \in Segments}

InitSplit ==
  /\ phase = "text"
  /\ text \in TextsOf(MaxSegs)
  /\ structure = NoStructure
  /\ citation = NoCitation
  /\ canonical = <<>>
  /\ parsed = NoCitation
  /\ HandlerOff

Decompose ==
  /\ phase = "text"
  /\ structure' = split_article_text_to_structure(text)
  /\ phase' = "decomposed"
  /\ UNCHANGED <<citation, canonical, parsed, text, handler_vars>>

NextSplit == Decompose

SpecSplit == InitSplit /\ [][NextSplit]_vars

\* --------------------------------------------------- the /law handler
\* Article numbers as the registry and the requests write them.
Jo1 == <<"je", "1", "jo">>
Jo1ui2 == <<"je", "1", "jo", "ui", "2">>
Jo9 == <<"je", "9", "jo">>
Jo1Hang1 == <<"je", "1", "jo", "je", "1", "hang">>
Jo1Hang9 == <<"je", "1", "jo", "je", "9", "hang">>
Jo1Hang1Ho1 == <<"je", "1", "jo", "je", "1", "hang", "je", "1", "ho">>
Jo1Hang1Ho9 == <<"je", "1", "jo", "je", "1", "hang", "je", "9", "ho">>

\* The clauses of article 1: clause (1) (circled) with subclause 1, clause 2.
Clauses1 ==
  << [no |-> <<"c1">>, content |-> <<"p", "1">>,
      ho |-> << [no |-> <<"1">>, content |-> <<"s", "1">>] >>],
     [no |-> <<"2">>, content |-> <<"p", "2">>, ho |-> <<>>] >>
Body1 == <<"a", " ", "je", "1", "hang", "p", "1", " ", "je", "2", "hang", "p", "2">>

\* The documents lawService.do may answer with: the law as the registry
\* numbers it; a registry that numbers clauses as articles; a law whose only
\* article is a branch article without text; a document that does not parse.
DocLaw ==
  [ok |-> TRUE,
   articles |-> << [no |-> Jo1ui2, content |-> <<"b", "2">>, hang |-> <<>>],
                   [no |-> Jo1, content |-> Body1, hang |-> Clauses1] >>]
DocClauses ==
  [ok |-> TRUE,
   articles |-> << [no |-> Jo1Hang1, content |-> Body1, hang |-> Clauses1],
                   [no |-> Jo1Hang1Ho1, content |-> Body1, hang |-> Clauses1],
                   [no |-> Jo1Hang9, content |-> Body1, hang |-> Clauses1],
                   [no |-> Jo1Hang1Ho9, content |-> Body1, hang |-> Clauses1] >>]
DocBranchOnly ==
  [ok |-> TRUE,
   articles |-> << [no |-> Jo1ui2, content |-> <<"MSG_NO_CONTENT">>, hang |-> <<>>] >>]
DocBad == [ok |-> FALSE, articles |-> <<>>]

\* What lawService.do may do: raise (connection error, HTTP error status),
\* answer that there is no such law, or answer with a document.
ServiceResponses ==
  { [kind |-> "error", doc |-> NoDoc], [kind |-> "nolaw", doc |-> NoDoc] }
  \cup { [kind |-> "doc", doc |-> d] : d \in {DocLaw, DocClauses, DocBranchOnly, DocBad} }

\* What lawSearch.do may do: raise, or answer with a list of laws.
LawRule == [names |-> {<<"hakpok", " ", "law", " ", "rule">>}, id |-> "id_rule", current |-> TRUE]
LawCivil == [names |-> {<<"civil">>, <<"civil", " ", "law">>}, id |-> "id_civil", current |-> FALSE]
LawOld == [names |-> {<<"old">>}, id |-> "id_old", current |-> FALSE]
SearchResponses ==
  { [error |-> TRUE, laws |-> <<>>], [error |-> FALSE, laws |-> <<>>],
    [error |-> FALSE, laws |-> <<LawRule>>], [error |-> FALSE, laws |-> <<LawOld, LawCivil>>],
    [error |-> FALSE, laws |-> <<LawOld>>] }

\* What the article page may be: a failed fetch, a page whose main element
\* holds the article, a page with nothing of use, a page with text blocks only.
HtmlPages ==
  { [error |-> TRUE, has_main |-> FALSE, main |-> <<>>, blocks |-> <<>>],
    [error |-> FALSE, has_main |-> TRUE,
     main |-> <<" ", "x21", "je", "1", "hang", "w">>, blocks |-> <<>>],
    [error |-> FALSE, has_main |-> TRUE, main |-> <<"w">>, blocks |-> <<<<"w">>>>],
    [error |-> FALSE, has_main |-> FALSE, main |-> <<>>,
     blocks |-> << <<"x21", "kw">>, <<"x21">>, <<"x21", "je", " ", "1", "jo">> >>] }

\* The query parameters of the requests.
LawNames == { <<>>, <<"hakpok", " ", "rule">>, <<"civil">> }
\* "je 1 jo ui 2" is written with a space, as in the example of the route.
ArticleNos ==
  { <<>>, <<" ">>, <<"a", "b", "c">>, Jo1, <<"je", "1", "jo", "ui", " ", "2">>, Jo9,
    Jo1Hang1, Jo1Hang9, Jo1Hang1Ho1, Jo1Hang1Ho9 }
\* clause_no and subclause_no: absent, clause 1 with subclause 1, clause 9.
ClauseParams ==
  { <<<<>>, <<>>>>, <<<<"1">>, <<"1">>>>, <<<<"9">>, <<>>>> }

\* The cache key of the design: the law name and the normalized citation.
Key(r) == <<r.law_name, normalize_article_no(r.article_no), r.clause_no, r.subclause_no>>

\* recent_logs.append(log_entry); if len(recent_logs) > 50: recent_logs.pop(0)
Logged(status) ==
  LET appended == Append(recent_logs, [id |-> nreq, status |-> status])
  IN IF Len(appended) > LogLimit THEN Tail(appended) ELSE appended

Init ==
  /\ PureOff
  /\ pc = "idle"
  /\ req = NoRequest
  /\ law = NoLaw
  /\ xml = NoDoc
  /\ resp = NoResponse
  /\ events = <<>>
  /\ recent_logs = <<>>
  /\ nreq = 0
  /\ resolved = {}
  /\ hit = FALSE
  /\ threads = NoThreads

\* get_law_clause up to its first network call (lines 360-381): a request
\* without law_name or article_no is answered at once and is not logged.
Request ==
  /\ pc = "idle"
  /\ nreq < MaxRequests
  /\ \E law_name \in LawNames, article_no \in ArticleNos, cs \in ClauseParams :
       LET r == [law_name |-> law_name, article_no |-> article_no,
                 clause_no |-> cs[1], subclause_no |-> cs[2]]
       IN /\ req' = r
          /\ hit' = (Key(r) \in resolved)
          /\ IF law_name = <<>> \/ article_no = <<>>
             THEN /\ resp' = [NoResponse EXCEPT !.kind = "param_error", !.status = 200]
                  /\ pc' = "idle"
             ELSE /\ resp' = NoResponse
                  /\ pc' = "search"
  /\ nreq' = nreq + 1
  /\ law' = NoLaw
  /\ xml' = NoDoc
  /\ events' = <<>>
  /\ UNCHANGED <<recent_logs, resolved, threads, pure_vars>>

\* Lines 382-394: resolve_full_law_name, get_law_id (lawSearch.do), and the
\* 404 answer when no id comes back.
GetLawId ==
  /\ pc = "search"
  /\ \E sr \in SearchResponses :
       LET law_name_full == resolve_full_law_name(req.law_name)
           law_id == get_law_id(law_name_full, sr)
       IN /\ law' = [full |-> law_name_full, id |-> law_id]
          /\ IF law_id = NoId
             THEN /\ recent_logs' = Logged("error")
                  /\ resp' = [NoResponse EXCEPT !.kind = "law_id_error", !.status = 404,
                                !.link = make_article_link(law_name_full, <<>>)]
                  /\ pc' = "idle"
             ELSE /\ UNCHANGED <<recent_logs, resp>>
                  /\ pc' = "fetch"
  /\ events' = Append(events, "lawSearch")
  /\ UNCHANGED <<req, xml, nreq, resolved, hit, threads, pure_vars>>

\* Lines 395-413 and 443-453: lawService.do, raise_for_status, the 403
\* answer for "no such law" and the 500 answer of the except clause.
FetchLaw ==
  /\ pc = "fetch"
  /\ \E sv \in ServiceResponses :
       IF sv.kind = "error"
       THEN /\ recent_logs' = Logged("error")
            /\ resp' = [NoResponse EXCEPT !.kind = "api_error", !.status = 500]
            /\ pc' = "idle"
            /\ xml' = xml
            /\ events' = Append(events, "lawService raised")
       ELSE IF sv.kind = "nolaw"
       THEN /\ recent_logs' = Logged("error")
            /\ resp' = [NoResponse EXCEPT !.kind = "law_unavailable", !.status = 403,
                          !.link = make_article_link(law.full, <<>>)]
            /\ pc' = "idle"
            /\ xml' = xml
            /\ events' = Append(events, "lawService")
       ELSE /\ xml' = sv.doc
            /\ pc' = "extract"
            /\ events' = Append(events, "lawService")
            /\ UNCHANGED <<recent_logs, resp>>
  /\ UNCHANGED <<req, law, nreq, resolved, hit, threads, pure_vars>>

\* Lines 418-436: the result dict built from what was extracted.
Result(r, law_name_full, shown, clause_no, subclause_no) ==
  [kind |-> "result", status |-> 200, source |-> "api",
   law_name |-> law_name_full,
   article |-> shown,
   hang |-> IF clause_no # <<>> THEN clause_no \o <<"hang">> ELSE <<>>,
   ho |-> IF subclause_no # <<>> THEN subclause_no \o <<"ho">> ELSE <<>>,
   content |-> r.content,
   full |-> r.full,
   structure |-> r.structure,
   link |-> make_article_link(law_name_full, shown),
   markdown |-> make_markdown_table(law_name_full, shown, clause_no, subclause_no,
                                    r.content, make_article_link(law_name_full, shown),
                                    r.full, r.available),
   available |-> r.available]

\* The rest of get_law_clause once extract_article_with_full has returned r.
Answer(r, article_no_norm) ==
  /\ resp' = Result(r, law.full,
                    IF r.canonical # <<>> THEN r.canonical ELSE article_no_norm,
                    req.clause_no, req.subclause_no)
  /\ events' = IF r.scraped THEN Append(events, "html") ELSE events
  /\ resolved' = IF r.canonical # <<>> THEN resolved \cup {Key(req)} ELSE resolved
  /\ recent_logs' = Logged("success")
  /\ pc' = "idle"

\* Lines 414-442: extract_article_with_full (with the HTML fetch it makes
\* when no article matches), the result, the log entry, the 200 answer.
Extract ==
  /\ pc = "extract"
  /\ \E page \in HtmlPages :
       Answer(extract_article_with_full(xml, normalize_article_no(req.article_no),
                                        req.clause_no, req.subclause_no, law.full, page),
              normalize_article_no(req.article_no))
  /\ UNCHANGED <<req, law, xml, nreq, hit, threads, pure_vars>>

Next == Request \/ GetLawId \/ FetchLaw \/ Extract

Spec == Init /\ [][Next]_vars

\* ------------------------------------- the log under concurrent requests
\* get_law_clause is a plain def, which the framework runs on the threads of
\* a pool: requests are handled at the same time and share recent_logs.
\* Each list operation is atomic; the append, the test of the length and the
\* pop are three operations, and other threads may run between them.

\* The four places where the handler appends its entry: no law id (line
\* 387), no such law (line 407), the result (line 439), the except clause
\* (line 446).
Paths == {"law_id_error", "unavailable", "success", "exception"}

\* log_entry["status"] on each path.
EntryStatus(path) == IF path = "success" THEN "success" ELSE "error"

OverflowsLate(log) == Len(log) > LogLimit + 1

\* len(recent_logs) > 50
Overflows(log) == Len(log) > LogLimit

\* recent_logs after n earlier requests answered one after the other.
PriorLog(n) == [i \in 1..n |-> [id |-> i - n, status |-> "success"]]

InitLog ==
  /\ PureOff
  /\ pc = "off"
  /\ req = NoRequest
  /\ law = NoLaw
  /\ xml = NoDoc
  /\ resp = NoResponse
  /\ events = <<>>
  /\ resolved = {}
  /\ hit = FALSE
  /\ nreq = 0
  /\ recent_logs \in {PriorLog(n) : n \in {0, LogLimit - 1, LogLimit}}
  /\ threads = NoThreads

\* Lines 360-380: a thread takes a request; without law_name or article_no
\* it answers at once and logs nothing.
Receive(t) ==
  /\ threads[t].at = "idle"
  /\ nreq < MaxLogRequests
  /\ nreq' = nreq + 1
  /\ \E law_name \in {<<>>, <<"civil">>}, article_no \in {<<>>, Jo1} :
       threads' = [threads EXCEPT ![t] =
         IF law_name = <<>> \/ article_no = <<>>
         THEN [NoThread EXCEPT !.id = nreq', !.path = "param_error"]
         ELSE [NoThread EXCEPT !.id = nreq', !.at = "run"]]
  /\ UNCHANGED <<pc, req, law, xml, resp, events, resolved, hit, recent_logs, pure_vars>>

\* The request reaches one of the four paths and appends its entry there:
\* recent_logs.append(log_entry).
AppendEntry(t) ==
  /\ threads[t].at = "run"
  /\ \E path \in Paths :
       /\ recent_logs' = Append(recent_logs,
                                [id |-> threads[t].id, status |-> EntryStatus(path)])
       /\ threads' = [threads EXCEPT ![t].at = "appended", ![t].path = path,
                                     ![t].appends = @ + 1]
  /\ UNCHANGED <<pc, req, law, xml, resp, events, resolved, hit, nreq, pure_vars>>

\* if len(recent_logs) > 50: the thread goes on to the pop, or returns.
CheckLen(t) ==
  /\ threads[t].at = "appended"
  /\ threads' = [threads EXCEPT ![t].seen = Len(recent_logs),
                                ![t].at = IF Overflows(recent_logs) THEN "pop" ELSE "idle"]
  /\ UNCHANGED <<pc, req, law, xml, resp, events, resolved, hit, nreq, recent_logs,
                 pure_vars>>

\* recent_logs.pop(0), and the return.
PopOldest(t) ==
  /\ threads[t].at = "pop"
  /\ recent_logs' = Tail(recent_logs)
  /\ threads' = [threads EXCEPT ![t].at = "idle", ![t].popped = TRUE]
  /\ UNCHANGED <<pc, req, law, xml, resp, events, resolved, hit, nreq, pure_vars>>

NextLog ==
  \E t \in 1..Workers : Receive(t) \/ AppendEntry(t) \/ CheckLen(t) \/ PopOldest(t)

SpecLog == InitLog /\ [][NextLog]_vars

\* ------------------------------------------------------------ the claims
Range(f) == {f[i] : i \in DOMAIN f}

\* The network calls a request makes are the events of its handling.
NetworkCalls == {"lawSearch", "lawService", "lawService raised", "html"}

\* The article and branch number a string names, as parse_article_input
\* reads them.
SamePair(a, b) ==
  LET p == parse_article_input(a)
      q == parse_article_input(b)
  IN p.no # None /\ p.no = q.no /\ p.gaji = q.gaji

\* The document holds an article (numbered as an article: "je N jo" or
\* "je N jo ui M") whose number is the requested article and branch number.
RegistryHasArticle(doc, article_no) ==
  /\ doc.ok
  /\ \E i \in 1..Len(doc.articles) :
       /\ IsFullArticle(RemoveSpaces(doc.articles[i].no))
       /\ SamePair(doc.articles[i].no, article_no)

\* C1: a request whose registry document holds the requested article is
\* answered from the registry: the HTML scrape is not made for it and the
\* result's source is the registry.
C1_RegistryBeforeScrape ==
  (pc = "idle" /\ resp.kind = "result" /\ RegistryHasArticle(xml, req.article_no))
    => ("html" \notin Range(events) /\ resp.source = "api")

\* C2: a request whose article number does not parse to an integer articleNo
\* ends as an invalid-citation failure and makes no network call.
C2_InvalidCitationNoNetwork ==
  (nreq > 0 /\ parse_article_input(req.article_no).no = None)
    => /\ Range(events) \cap NetworkCalls = {}
       /\ pc = "idle" => resp.kind \in {"param_error", "invalid_citation"}

\* C3: a request whose law name and normalized citation were resolved by an
\* earlier request invokes no retrieval tier.
C3_CachedNoRetrieval ==
  hit => Range(events) \cap NetworkCalls = {}

\* C4: when the citation is valid, the document lists articles, none is the
\* requested one and the scrape yields no text, the answer carries the list of article numbers and
\* a link, and its message says "not found" and lists the numbers.
C4_NotFoundListsArticles ==
  ( /\ pc = "idle"
    /\ resp.kind = "result"
    /\ parse_article_input(req.article_no).no # None
    /\ xml.ok
    /\ xml.articles # <<>>
    /\ MatchIndex(xml.articles, normalize_article_no(req.article_no)) = 0
    /\ ~RegistryHasArticle(xml, req.article_no)
    /\ resp.full \in {<<>>, <<"MSG_HTML_NOT_FOUND">>, <<"MSG_HTML_ERROR">>} )
    => /\ resp.available # <<>>
       /\ resp.link # <<>>
       /\ Contains(resp.content, <<"MSG_ARTICLE_NOT_FOUND">>)
       /\ \A i \in 1..Len(xml.articles) : Contains(resp.content, xml.articles[i].no)

\* C5: when the registry structured fetch raises on a request with a valid
\* citation, the request goes on to the HTML scrape and the error is not the outcome of the request.
C5_FetchErrorFallsThrough ==
  ( /\ pc = "idle"
    /\ parse_article_input(req.article_no).no # None
    /\ "lawService raised" \in Range(events) )
    => (resp.kind # "api_error" /\ "html" \in Range(events))

\* C6: parsing the canonical string of a citation gives back its article,
\* branch, clause and subclause number.
C6_RoundTrip ==
  phase = "parsed"
    => /\ parsed.no = citation.no
       /\ parsed.gaji = citation.gaji
       /\ parsed.hang = citation.hang
       /\ parsed.ho = citation.ho

C6_Witness ==
  /\ phase = "parsed"
  /\ citation.no >= 10
  /\ citation.gaji # None
  /\ citation.hang # None
  /\ citation.ho # None
  /\ parsed.gaji = citation.gaji

NoHeading(t) == \A level \in {"gaji", "hang", "ho"} : FindHead(t, 1, level) = 0

\* r is t without its leading and trailing whitespace.
IsTrimOf(r, t) ==
  /\ \E i \in 1..(Len(t) + 1) :
       /\ r = SubSeq(t, i, i + Len(r) - 1)
       /\ i + Len(r) - 1 <= Len(t)
       /\ \A k \in 1..(i - 1) : t[k] \in Whitespace
       /\ \A k \in (i + Len(r))..Len(t) : t[k] \in Whitespace
  /\ r # <<>> => (r[1] \notin Whitespace /\ r[Len(r)] \notin Whitespace)

\* C7: split_article_text_to_structure returns a value for every text, and
\* for a text without any heading it is the plain text, trimmed.
C7_TotalLeaf ==
  phase = "decomposed"
    => /\ structure.kind \in {"gaji", "hang", "str"}
       /\ NoHeading(text) => (structure.kind = "str" /\ IsTrimOf(structure.text, text))

C7_Witness ==
  /\ phase = "decomposed"
  /\ NoHeading(text)
  /\ Len(text) >= 3
  /\ text[1] \in Whitespace
  /\ text[Len(text)] \in Whitespace
  /\ structure.kind = "str"
  /\ structure.text # <<>>

\* The clause and subclause number a request names: the clause_no and
\* subclause_no parameters, else the ones in the article string.
ReqClause(r) ==
  IF r.clause_no # <<>> THEN DigitsToInt(r.clause_no)
  ELSE parse_article_input(r.article_no).hang
ReqSub(r) ==
  IF r.subclause_no # <<>> THEN DigitsToInt(r.subclause_no)
  ELSE parse_article_input(r.article_no).ho
\* The parameters and the article string name different numbers.
Conflicting(r) ==
  LET c == parse_article_input(r.article_no)
  IN \/ r.clause_no # <<>> /\ c.hang # None /\ c.hang # DigitsToInt(r.clause_no)
     \/ r.subclause_no # <<>> /\ c.ho # None /\ c.ho # DigitsToInt(r.subclause_no)

NumberIs(no, n) ==
  LET d == circled_nums(Strip(no)) IN IsDigitString(d) /\ DigitsToInt(d) = n
ClausesOf(article, n) == {i \in 1..Len(article.hang) : NumberIs(article.hang[i].no, n)}
SubsOf(clause, n) == {j \in 1..Len(clause.ho) : NumberIs(clause.ho[j].no, n)}

\* The article the registry tier matched for the request, with the request
\* naming a clause.
MatchedWithClause ==
  /\ pc = "idle"
  /\ resp.kind = "result"
  /\ xml.ok
  /\ MatchIndex(xml.articles, normalize_article_no(req.article_no)) > 0
  /\ ReqClause(req) # None
  /\ ~Conflicting(req)
MatchedArticle == xml.articles[MatchIndex(xml.articles, normalize_article_no(req.article_no))]

\* C8: when the matched article holds the clause (and subclause) the request
\* names, the content of the answer is the text of that clause (subclause).
C8_ClauseSelected ==
  MatchedWithClause =>
    \A i \in ClausesOf(MatchedArticle, ReqClause(req)) :
      IF ReqSub(req) = None
      THEN resp.content = MatchedArticle.hang[i].content
      ELSE \A j \in SubsOf(MatchedArticle.hang[i], ReqSub(req)) :
             resp.content = MatchedArticle.hang[i].ho[j].content

\* C9: when the matched article lacks the clause (or the clause lacks the
\* subclause) the request names, the content is the text of the article (of
\* the clause) together with a "not found" note.
C9_AncestorWithNote ==
  MatchedWithClause =>
    /\ ClausesOf(MatchedArticle, ReqClause(req)) = {}
         => /\ Contains(resp.content, MatchedArticle.content)
            /\ Contains(resp.content, <<"MSG_HANG_NOT_FOUND">>)
    /\ \A i \in ClausesOf(MatchedArticle, ReqClause(req)) :
         (ReqSub(req) # None /\ SubsOf(MatchedArticle.hang[i], ReqSub(req)) = {})
           => /\ Contains(resp.content, MatchedArticle.hang[i].content)
              /\ Contains(resp.content, <<"MSG_HO_NOT_FOUND">>)

\* Every string a structure holds: titles, prefaces, bodies and leaves.
RECURSIVE StructTexts(_)
StructTexts(st) ==
  IF st.kind = "str" THEN {st.text}
  ELSE IF st.kind = "ho"
       THEN {st.body} \cup UNION {{st.ho[i].title} \cup StructTexts(st.ho[i].value) :
                                    i \in 1..Len(st.ho)}
  ELSE IF st.kind = "hang"
       THEN {st.preface} \cup UNION {{st.hang[i].title} \cup StructTexts(st.hang[i].value) :
                                       i \in 1..Len(st.hang)}
  ELSE IF st.kind = "gaji"
       THEN UNION {{st.gaji[i].title} \cup StructTexts(st.gaji[i].value) :
                     i \in 1..Len(st.gaji)}
  ELSE {}

Kept(s, st) == Strip(s) = <<>> \/ \E x \in StructTexts(st) : Contains(x, Strip(s))

\* C10: the text before the first heading of each level (branch article,
\* clause, subclause) is in the returned structure.
C10_PrefaceKept ==
  phase = "decomposed" =>
    LET g == SplitOn(text, "gaji")
        h == SplitOn(text, "hang")
    IN /\ g.found => Kept(g.first, structure)
       /\ (~g.found /\ h.found) => structure.preface = Strip(h.first)
       /\ (~g.found /\ h.found /\ Len(h.pairs) = 1 /\ SplitOn(h.pairs[1].content, "ho").found)
            => structure.hang[1].value.body = Strip(SplitOn(h.pairs[1].content, "ho").first)

\* C11: the list of article numbers a registry answer carries holds the
\* number of every article of the document, matched or not and wherever the
\* matching article stands in the document.
C11_AvailableListsAll ==
  (pc = "idle" /\ resp.kind = "result" /\ xml.ok)
    => \A i \in 1..Len(xml.articles) :
         \E j \in 1..Len(resp.available) : resp.available[j] = xml.articles[i].no

\* No request is in progress.
Quiescent == \A t \in 1..Workers : threads[t].at = "idle"

\* The thread's last request supplied both parameters and has returned.
Returned(t) == threads[t].at = "idle" /\ threads[t].path \in Paths

\* With no request in progress the log holds at most 50 entries, and a
\* request that has returned on one of the four paths appended one entry.
LogBounded ==
  /\ Quiescent => Len(recent_logs) <= LogLimit
  /\ \A t \in 1..Workers : Returned(t) => threads[t].appends = 1

\* A step that adds to the log appends one entry at its end; a step that
\* takes from it removes the oldest entry, and none but the oldest.
OldestRemoved ==
  /\ Len(recent_logs') > Len(recent_logs)
       => /\ Len(recent_logs') = Len(recent_logs) + 1
          /\ SubSeq(recent_logs', 1, Len(recent_logs)) = recent_logs
  /\ Len(recent_logs') < Len(recent_logs) => recent_logs' = Tail(recent_logs)
  /\ Len(recent_logs') = Len(recent_logs) => recent_logs' = recent_logs

\* C12: whatever the interleaving of the requests, recent_logs holds at most
\* 50 entries whenever no request is in progress, every request with both
\* parameters appends exactly one entry on each of its four outcome paths,
\* and the entry removed when the bound is exceeded is the oldest one.
C12_BoundedLog == [](LogBounded) /\ [][OldestRemoved]_vars

\* Requests overlapped on a full log: one of them found two entries more
\* than the bound at its test, every thread removed an entry, one request
\* ended on the except path and one on the result path, and the log is back
\* at its bound with no request in progress.
C12_Witness ==
  /\ Quiescent
  /\ Len(recent_logs) = LogLimit
  /\ \A t \in 1..Workers : Returned(t) /\ threads[t].popped
  /\ \E t \in 1..Workers : threads[t].path = "exception"
  /\ \E t \in 1..Workers : threads[t].path = "success"
  /\ \E t \in 1..Workers : threads[t].seen = LogLimit + 2

====
